---- MODULE Spec2Model ----
(***************************************************************************)
(* A model of bulk_multiplle_file.py: the resumable signing workflow       *)
(* (SigningPerformanceTest.run and its seven steps), the checkpoint store  *)
(* (CheckpointData.save / load), the retry engine (retry_with_backoff) and *)
(* the SIGINT handler.                                                     *)
(*                                                                         *)
(* Strings of the program are modelled as follows: the empty string is 0,  *)
(* tokens, request ids, signer-session ids and file names are positive     *)
(* integers.  What the environment makes up is made up afresh: the token   *)
(* endpoint never answers with the token the client holds, every process   *)
(* draws its own request id, the server names every file and every signing *)
(* session differently.  retry_backoff_factor (a float) is a positive integer number  *)
(* of time units.                                                          *)
(*                                                                         *)
(* A save of the checkpoint takes two steps, as in CheckpointData.save:    *)
(* open(filename, 'w') truncates checkpoint.json (the action that saves,   *)
(* which stops at one of the save_<line> positions), and json.dump writes  *)
(* it (write_done).  In between the process can be killed (crash_in_save)  *)
(* or interrupted.                                                         *)
(***************************************************************************)
EXTENDS Integers, Sequences, FiniteSets, TLC

(***************************************************************************)
(* Bounds of the model.                                                    *)
(***************************************************************************)
\* largest retry budget (config.max_retries) the retry engine is called with
\* when it is exercised on its own
MaxBudget == 3
\* largest retry_backoff_factor
MaxFactor == 2
\* config.number_of_uploads of the modelled workflow
NumberOfUploads == 6
\* config.max_retries of the modelled workflow
WfMaxRetries == 1
\* config.max_status_checks of the modelled workflow
MaxStatusChecks == 3
\* number of processes (runs of main) started one after the other
MaxRuns == 2
\* longest list of timing records _calculate_summary is applied to when it is
\* exercised on its own
MaxRecords == 3
\* largest duration of a timing record, in units of the clock
MaxDuration == 4

(***************************************************************************)
(* Program constants.                                                      *)
(***************************************************************************)
\* "if (i + 1) % 5 == 0" in _execute_upload_files
Cadence == 5

VARIABLES
    cfg,          \* SigningTestConfig: the fields the model reads
    pc,           \* where the main thread of the current process stands
    rt,           \* the activation of retry_with_backoff (one at a time)
    state,        \* self.state: SigningTestState
    checkpoint,   \* self.checkpoint: CheckpointData (in memory)
    file,         \* the content of checkpoint.json on disk
    resume_mode,  \* self.resume_mode
    interrupted,  \* self._interrupted
    timings,      \* self.timings
    stepIdx,      \* index of the current step in run()'s steps list (1..7)
    upIdx,        \* i of the upload loop (0-based, as in the code)
    counter,      \* counter of the status polling loop
    headers,      \* the bearer token captured in a step's headers dict
    summary,      \* what _calculate_summary returned to _save_results
    hist          \* history (ghost) record: what was sent, loaded, raised

vars == <<cfg, pc, rt, state, checkpoint, file, resume_mode, interrupted,
          timings, stepIdx, upIdx, counter, headers, summary, hist>>

(***************************************************************************)
(* Outcomes of one execution of an action (one HTTP exchange).             *)
(*   ok       the request succeeded and the response was usable            *)
(*   h401     requests.exceptions.HTTPError, status 401                    *)
(*   h4xx     HTTPError, 400 <= status < 500, status # 401                 *)
(*   h5xx     HTTPError, any other status                                  *)
(*   conn     requests.exceptions.ConnectionError                          *)
(*   timeout  requests.exceptions.Timeout                                  *)
(*   invalid  any other exception raised by the action (ValueError for a   *)
(*            response without auth_urls, KeyError, IndexError)            *)
(***************************************************************************)
Outcomes == {"ok", "h401", "h4xx", "h5xx", "conn", "timeout", "invalid"}

Transient == {"h5xx", "conn", "timeout"}

Permanent == {"h4xx", "invalid"}

RECURSIVE Pow2(_)
Pow2(n) == IF n = 0 THEN 1 ELSE 2 * Pow2(n - 1)

(***************************************************************************)
(* retry_with_backoff                                                      *)
(***************************************************************************)
NoErr == [kind |-> "none", op |-> "", n |-> 0]

\* an exception of the action, re-raised as it is (bare "raise")
Underlying(o) == [kind |-> o, op |-> "", n |-> 0]

\* Exception(f"Max retries ({max_retries}) exceeded for {operation_name}")
MaxRetriesExceeded(op, n) == [kind |-> "max_retries_exceeded", op |-> op, n |-> n]

\* log is a history of the activation: the executions of the action, the
\* sleeps and the token refreshes, in order.  It is kept for the action of
\* the harness, whose calls are studied one by one, and not for the steps of
\* the workflow.  execs is the number of times the activation has executed
\* the action.
IdleRt == [pc |-> "idle", func |-> "", op |-> "", budget |-> 0, attempt |-> 0,
           log |-> <<>>, err |-> NoErr, val |-> 0, msg |-> "",
           execs |-> 0]

Logged(r, e) == IF r.func = "action" THEN Append(r.log, e) ELSE r.log

\* the activation record at entry: "for attempt in range(max_retries + 1)"
retry_enter(func, op, budget) ==
    [pc |-> "attempt", func |-> func, op |-> op, budget |-> budget,
     attempt |-> 0, log |-> <<>>, err |-> NoErr, val |-> 0, msg |-> "",
     execs |-> 0]

WaitTimeHalved(attempt, f) == Pow2(attempt - 1) * f

\* wait_time = (2 ** attempt) * self.config.retry_backoff_factor
WaitTime(attempt, f) == Pow2(attempt) * f

\* "if attempt > 0: ... time.sleep(wait_time)": the log after the sleep
SleepBeforeAttempt(r, f) ==
    IF r.attempt > 0
    THEN Logged(r, [ev |-> "wait", v |-> WaitTime(r.attempt, f)])
    ELSE r.log

next_iteration_same_attempt(r) == [r EXCEPT !.pc = "attempt"]

\* the next iteration of the for loop, or the statement after the loop
\* (line 378) when the range is used up
next_iteration(r) ==
    IF r.attempt + 1 <= r.budget
    THEN [r EXCEPT !.attempt = r.attempt + 1, !.pc = "attempt"]
    ELSE [r EXCEPT !.pc = "raised",
                   !.err = MaxRetriesExceeded(r.op, r.budget)]

OnFailureRetryClientErrors(r, o) ==
    CASE o = "h401" -> [r EXCEPT !.pc = "refresh"]
      [] o = "invalid" -> [r EXCEPT !.pc = "raised", !.err = Underlying(o)]
      [] OTHER ->
            IF r.attempt = r.budget
            THEN [r EXCEPT !.pc = "raised", !.err = Underlying(o)]
            ELSE next_iteration(r)

OnFailureOneMoreAttempt(r, o) ==
    CASE o = "h401" -> [r EXCEPT !.pc = "refresh"]
      [] o \in Permanent -> [r EXCEPT !.pc = "raised", !.err = Underlying(o)]
      [] OTHER ->
            IF r.attempt = r.budget + 1
            THEN [r EXCEPT !.pc = "raised", !.err = Underlying(o)]
            ELSE [r EXCEPT !.attempt = r.attempt + 1, !.pc = "attempt"]

\* the except clauses of retry_with_backoff, for an action that raised o
OnFailure(r, o) ==
    CASE o = "h401" -> [r EXCEPT !.pc = "refresh"]
      [] o \in Permanent -> [r EXCEPT !.pc = "raised", !.err = Underlying(o)]
      [] OTHER ->
            \* server error, ConnectionError, Timeout, RequestException:
            \* "if attempt == max_retries: raise"
            IF r.attempt = r.budget
            THEN [r EXCEPT !.pc = "raised", !.err = Underlying(o)]
            ELSE next_iteration(r)

\* one iteration of the loop up to the classification of the outcome o of
\* func(): the sleep, the call, "return func(...)" or the except clause
retry_iteration(r, o, f) ==
    LET slept == [r EXCEPT !.log = SleepBeforeAttempt(r, f)]
        ran == [slept EXCEPT !.log = Logged(slept, [ev |-> "exec", v |-> o]),
                             !.execs = @ + 1]
    IN  IF o = "ok" THEN [ran EXCEPT !.pc = "returned"] ELSE OnFailure(ran, o)

\* the handling of a 401: self._get_access_token() answered (ok) or raised
retry_refreshed(r, ok) ==
    LET logged == [r EXCEPT !.log = Logged(r, [ev |-> "refresh",
                                               v |-> IF ok THEN "ok" ELSE "failed"])]
    IN  IF ok
        THEN next_iteration(logged)                       \* continue
        ELSE IF r.attempt = r.budget
             THEN [logged EXCEPT !.pc = "raised", !.err = Underlying("token_error")]
             ELSE next_iteration(logged)

(***************************************************************************)
(* SigningTestState, CheckpointData and checkpoint.json                    *)
(***************************************************************************)
\* SigningTestState() (user_identifier is always config.username: left out)
InitialState ==
    [access_token |-> 0, user_token |-> 0, uploaded_files |-> <<>>,
     request_id |-> 0, id_rsa |-> 0]

\* CheckpointData()
DefaultCheckpoint ==
    [request_id |-> 0, access_token |-> 0, user_token |-> 0,
     uploaded_files |-> <<>>, completed_steps |-> <<>>,
     last_completed_step |-> "", timestamp |-> 0, id_rsa |-> 0]

\* the fields of the dataclass, in declaration order
CheckpointFields ==
    <<"request_id", "access_token", "user_token", "uploaded_files",
      "completed_steps", "last_completed_step", "timestamp", "id_rsa">>

\* dataclasses.asdict(self) written by json.dump: the key/value pairs of the
\* JSON object, in order
asdict(ck) ==
    [k \in 1..Len(CheckpointFields) |->
        [key |-> CheckpointFields[k], value |-> ck[CheckpointFields[k]]]]

\* checkpoint.json: absent, unparsable (json.load raises), or a JSON object
NoFile == [kind |-> "absent", text |-> <<>>]

CorruptFile == [kind |-> "corrupt", text |-> <<>>]

JsonFile(pairs) == [kind |-> "json", text |-> pairs]

\* open(filename, 'w') has truncated the file and json.dump has not finished:
\* the file is empty or holds the beginning of a JSON text (json.load raises)
TruncatedFile == [kind |-> "truncated", text |-> <<>>]

\* CheckpointData.save: self.timestamp = now, then json.dump(asdict(self))
save(ck, now) ==
    LET stamped == [ck EXCEPT !.timestamp = now]
    IN  [ck |-> stamped, file |-> JsonFile(asdict(stamped))]

\* the value json.load gives for key, or the dataclass default
FieldOf(pairs, key) ==
    IF \E k \in DOMAIN pairs : pairs[k].key = key
    THEN pairs[CHOOSE k \in DOMAIN pairs : pairs[k].key = key].value
    ELSE DefaultCheckpoint[key]

None == [ok |-> FALSE, ck |-> DefaultCheckpoint]

\* CheckpointData.load: None for a missing file (FileNotFoundError) and for
\* any other exception (json error, cls(**data) given an unknown key)
load(f) ==
    IF f.kind # "json" THEN None
    ELSE IF \E k \in DOMAIN f.text :
                \A j \in DOMAIN CheckpointFields : CheckpointFields[j] # f.text[k].key
         THEN None
         ELSE [ok |-> TRUE,
               ck |-> [key \in {CheckpointFields[j] : j \in DOMAIN CheckpointFields}
                          |-> FieldOf(f.text, key)]]

save_checkpoint_without_files(st, ck, now) ==
    save([ck EXCEPT !.request_id = st.request_id,
                    !.access_token = st.access_token,
                    !.user_token = st.user_token], now)

\* _save_checkpoint: copy four fields of self.state, then self.checkpoint.save()
save_checkpoint(st, ck, now) ==
    save([ck EXCEPT !.request_id = st.request_id,
                    !.access_token = st.access_token,
                    !.user_token = st.user_token,
                    !.uploaded_files = st.uploaded_files], now)

(***************************************************************************)
(* The workflow: SigningPerformanceTest                                    *)
(***************************************************************************)
Range(seq) == {seq[k] : k \in DOMAIN seq}

\* response.json()["access_token"]: a token other than the one held (old)
NewToken(old) == (old % 2) + 1

\* generate_random_id(6): the id drawn by process number run
RandomId(run) == run

\* the steps list of run(): (name, function, resumable)
Steps ==
    << [name |-> "Get JWT Token", func |-> "execute_get_token", resumable |-> FALSE],
       [name |-> "Upload Files", func |-> "execute_upload_files", resumable |-> TRUE],
       [name |-> "Request Sign", func |-> "execute_request_signing", resumable |-> TRUE],
       [name |-> "Get User Token", func |-> "execute_get_user_token", resumable |-> FALSE],
       [name |-> "Auth using OTP", func |-> "execute_auth_otp", resumable |-> TRUE],
       [name |-> "Execute Sign", func |-> "execute_signing", resumable |-> TRUE],
       [name |-> "Check Sign Status", func |-> "execute_check_status", resumable |-> TRUE] >>

StepNames == {Steps[k].name : k \in DOMAIN Steps}

\* datetime.now(): the clock is read in units of process launches
Now == hist.runs

\* the name the upload endpoint gives the file of index idx (1-based) that it
\* receives from process number run: the server names every file differently
FileName(run, idx) == run * 10 + idx

(***************************************************************************)
(* Timing records and _calculate_summary                                   *)
(***************************************************************************)
\* duration = end_time - start_time (line 394)
Elapsed(start_time, end_time) == end_time - start_time

\* the words of the operation names, as " " separates them: the step names of
\* run(), and the two one-word names "Upload" and "Sign"
WordsOf ==
    [op \in StepNames \cup {"Upload", "Sign"} |->
        CASE op = "Get JWT Token" -> <<"Get", "JWT", "Token">>
          [] op = "Upload Files" -> <<"Upload", "Files">>
          [] op = "Request Sign" -> <<"Request", "Sign">>
          [] op = "Get User Token" -> <<"Get", "User", "Token">>
          [] op = "Auth using OTP" -> <<"Auth", "using", "OTP">>
          [] op = "Execute Sign" -> <<"Execute", "Sign">>
          [] op = "Check Sign Status" -> <<"Check", "Sign", "Status">>
          [] OTHER -> <<op>>]

\* timing.operation.split(" "): the record of the upload of file idx carries
\* the operation f"Upload File {i+1}" (line 627)
split(t) ==
    IF t.op = "Upload File" THEN <<"Upload", "File", t.idx>> ELSE WordsOf[t.op]

\* base_op = timing.operation.split(" ")[0]
BaseOp(t) == split(t)[1]

\* operations[base_op]: the durations of the records of base_op, in order
RECURSIVE DurationsOf(_, _)
DurationsOf(ts, base_op) ==
    IF ts = <<>> THEN <<>>
    ELSE (IF BaseOp(Head(ts)) = base_op THEN <<Head(ts).duration>> ELSE <<>>)
         \o DurationsOf(Tail(ts), base_op)

RECURSIVE sum_of(_)
sum_of(durations) ==
    IF durations = <<>> THEN 0 ELSE Head(durations) + sum_of(Tail(durations))

RECURSIVE min_of(_)
min_of(durations) ==
    IF Len(durations) = 1 THEN Head(durations)
    ELSE LET m == min_of(Tail(durations))
         IN  IF Head(durations) < m THEN Head(durations) ELSE m

RECURSIVE max_of(_)
max_of(durations) ==
    IF Len(durations) = 1 THEN Head(durations)
    ELSE LET m == max_of(Tail(durations))
         IN  IF Head(durations) > m THEN Head(durations) ELSE m

RECURSIVE Gcd(_, _)
Gcd(a, b) == IF b = 0 THEN a ELSE Gcd(b, a % b)

\* a / b of two numbers: the quotient as a fraction in lowest terms
Quotient(a, b) ==
    LET g == Gcd(a, b) IN [num |-> a \div g, den |-> b \div g]

StatsMaxIsLast(durations) ==
    [count |-> Len(durations),
     total |-> sum_of(durations),
     average |-> IF durations # <<>> THEN Quotient(sum_of(durations), Len(durations))
                 ELSE Quotient(0, 1),
     min |-> IF durations # <<>> THEN min_of(durations) ELSE 0,
     max |-> IF durations # <<>> THEN durations[Len(durations)] ELSE 0]

\* lines 909-915: the statistics of one group
Stats(durations) ==
    [count |-> Len(durations),
     total |-> sum_of(durations),
     average |-> IF durations # <<>> THEN Quotient(sum_of(durations), Len(durations))
                 ELSE Quotient(0, 1),
     min |-> IF durations # <<>> THEN min_of(durations) ELSE 0,
     max |-> IF durations # <<>> THEN max_of(durations) ELSE 0]

\* _calculate_summary: one entry per base operation of the records
calculate_summary(ts) ==
    [base_op \in {BaseOp(ts[k]) : k \in DOMAIN ts} |->
        Stats(DurationsOf(ts, base_op))]

\* no summary has been computed
NoSummary == [base_op \in {} |-> Stats(<<>>)]

\* the saves that are followed by _save_results (lines 265-266 and 593-594)
SavesResults == {"save_593", "save_265", "save_265_verify"}

\* the outcomes of the HTTP exchange of a workflow action: ConnectionError,
\* Timeout and RequestException share one except clause and are one outcome
WfOutcomes == {"ok", "h401", "h4xx", "h5xx", "timeout"}

FuncOutcomes(func) ==
    CASE func = "action" -> Outcomes
      [] func = "do_request" -> WfOutcomes \cup {"invalid"}
      [] OTHER -> WfOutcomes

\* response_data.get("message", "") of a status check
Messages(func, o) ==
    IF func = "do_check" /\ o = "ok" THEN {"DONE", "PENDING"} ELSE {""}

NoFailure == [kind |-> "none", attempts |-> 0]

\* the history of the current process (and, for signReqs, srvSign, captured,
\* succeeded and good, of the processes before it):
\*   exit         how the process ended: "returned" (run() returned),
\*                "raised" (an error left run()), "swallowed" (run() caught an
\*                error and returned), "interrupted" (sys.exit in the signal
\*                handler), "crashed" (killed), "cleared" (--clear-checkpoint)
\*   loadedSteps  completed_steps of the checkpoint that was loaded
\*   doneRun      the steps whose function returned in this process
\*   polls        the answers of the status checks, in order ("raised" for a
\*                check that retry_with_backoff gave up)
\*   pollReport   what _execute_check_status logged when the polling stopped
\*   failure      the error that left the failing step, and the number of
\*                times the failing request had been sent
\*   reported     the step name of "Test failed at step '...'" (line 586)
\*   good         a snapshot has been written completely and not been cleared
InitialHist ==
    [runs |-> 0, exit |-> "none", found |-> FALSE, loadedFiles |-> <<>>,
     uploadReqs |-> {}, signReqs |-> 0, srvSign |-> 0, captured |-> 0,
     succeeded |-> {}, executed |-> {}, skipped |-> {}, newRid |-> FALSE,
     uploadsDone |-> FALSE, corrupt |-> FALSE,
     loadedSteps |-> <<>>, doneRun |-> {}, polls |-> <<>>, pollReport |-> "none",
     failure |-> NoFailure, reported |-> "", good |-> FALSE]

\* _load_checkpoint, lines 281-293: the state and checkpoint of the new object
load_checkpoint(f) ==
    LET l == load(f)
    IN  IF l.ok
        THEN [found |-> TRUE,
              state |-> [InitialState EXCEPT
                            !.request_id = l.ck.request_id,
                            !.access_token = l.ck.access_token,
                            !.user_token = l.ck.user_token,
                            !.uploaded_files = l.ck.uploaded_files],
              checkpoint |-> l.ck]
        ELSE [found |-> FALSE, state |-> InitialState,
              checkpoint |-> DefaultCheckpoint]

\* __init__(config, resume): a new process is started; with a stored access
\* token _load_checkpoint goes on to verify it (line 296)
StartRun ==
    /\ pc = "idle"
    /\ hist.runs < MaxRuns
    /\ \E resume \in BOOLEAN :
          LET l == IF resume THEN load_checkpoint(file)
                   ELSE [found |-> FALSE, state |-> InitialState,
                         checkpoint |-> DefaultCheckpoint]
          IN  /\ resume_mode' = resume
              /\ state' = l.state
              /\ checkpoint' = l.checkpoint
              /\ pc' = IF l.found /\ l.checkpoint.access_token # 0
                       THEN "verify_token" ELSE "constructed"
              /\ hist' = [hist EXCEPT
                            !.runs = hist.runs + 1,
                            !.exit = "none",
                            !.found = l.found,
                            !.loadedFiles = l.state.uploaded_files,
                            !.uploadReqs = {},
                            !.captured =
                                IF ~l.found THEN 0
                                ELSE IF hist.captured # 0 THEN hist.captured
                                ELSE l.checkpoint.id_rsa,
                            !.succeeded = IF l.found THEN hist.succeeded ELSE {},
                            !.executed = {},
                            !.skipped = {},
                            !.newRid = FALSE,
                            !.uploadsDone = FALSE,
                            !.corrupt = (file.kind \in {"corrupt", "truncated"}),
                            !.loadedSteps = l.checkpoint.completed_steps,
                            !.doneRun = {},
                            !.polls = <<>>,
                            !.pollReport = "none",
                            !.failure = NoFailure,
                            !.reported = ""]
    /\ timings' = <<>>
    /\ interrupted' = FALSE
    /\ rt' = IdleRt
    /\ stepIdx' = 0
    /\ upIdx' = 0
    /\ counter' = 0
    /\ headers' = 0
    /\ summary' = NoSummary
    /\ UNCHANGED <<cfg, file>>

\* lines 305-310: a 401 of the health request, or any exception of it, blanks
\* the restored access token
token_checked(st, valid) ==
    IF valid THEN st ELSE [st EXCEPT !.access_token = 0]

\* _load_checkpoint, lines 296-312: the health request answered
verify_token ==
    /\ pc = "verify_token"
    /\ \E valid \in BOOLEAN : state' = token_checked(state, valid)
    /\ pc' = "constructed"
    /\ UNCHANGED <<cfg, summary, rt, checkpoint, file, resume_mode, interrupted, timings,
                   stepIdx, upIdx, counter, headers, hist>>

\* main(), lines 945-954: --clear-checkpoint removes checkpoint.json (or finds
\* none) and returns
clear_checkpoint ==
    /\ pc = "idle"
    /\ hist.runs < MaxRuns
    /\ file' = NoFile
    /\ hist' = [hist EXCEPT !.runs = hist.runs + 1, !.exit = "cleared",
                            !.good = FALSE]
    /\ UNCHANGED <<cfg, summary, pc, rt, state, checkpoint, resume_mode, interrupted,
                   timings, stepIdx, upIdx, counter, headers>>

StartFreshOnlyWithoutResume(resume, ck) == ~resume

\* "if not self.resume_mode or not self.checkpoint.request_id"
StartsNewTest(resume, ck) == ~resume \/ ck.request_id = 0

\* run(), lines 543-549: a new request id, or the restored one
RunBegin ==
    /\ pc = "constructed"
    /\ IF StartsNewTest(resume_mode, checkpoint)
       THEN /\ state' = [state EXCEPT !.request_id = RandomId(hist.runs)]
            /\ hist' = [hist EXCEPT !.newRid = TRUE]
       ELSE UNCHANGED <<state, hist>>
    /\ pc' = "loop"
    /\ stepIdx' = 1
    /\ UNCHANGED <<cfg, summary, rt, checkpoint, file, resume_mode, interrupted,
                   timings, upIdx, counter, headers>>

SkippableAlsoNonResumable(s, ck) == s.name \in Range(ck.completed_steps)

\* "if resumable and step_name in self.checkpoint.completed_steps"
Skippable(s, ck) == s.resumable /\ s.name \in Range(ck.completed_steps)

\* the loop of run(): "continue" for a completed resumable step
SkipStep ==
    /\ pc = "loop"
    /\ stepIdx \in DOMAIN Steps
    /\ Skippable(Steps[stepIdx], checkpoint)
    /\ stepIdx' = stepIdx + 1
    /\ hist' = [hist EXCEPT !.skipped = @ \cup {Steps[stepIdx].name}]
    /\ UNCHANGED <<cfg, summary, pc, rt, state, checkpoint, file, resume_mode,
                   interrupted, timings, upIdx, counter, headers>>

\* the loop of run(): self._record_timing(step_name, step_func) is entered
ExecuteStep ==
    /\ pc = "loop"
    /\ stepIdx \in DOMAIN Steps
    /\ ~Skippable(Steps[stepIdx], checkpoint)
    /\ pc' = Steps[stepIdx].func
    /\ hist' = [hist EXCEPT !.executed = @ \cup {Steps[stepIdx].name}]
    /\ UNCHANGED <<cfg, summary, rt, state, checkpoint, file, resume_mode, interrupted,
                   timings, stepIdx, upIdx, counter, headers>>

AppendStepAlways(completed, name) == Append(completed, name)

\* lines 576-577: "if step_name not in self.checkpoint.completed_steps"
AppendStep(completed, name) ==
    IF name \in Range(completed) THEN completed ELSE Append(completed, name)

MarkCompletedLastOnly(ck, name) == [ck EXCEPT !.last_completed_step = name]

\* lines 576-578: the step is marked as completed
MarkCompleted(ck, name) ==
    [ck EXCEPT !.completed_steps = AppendStep(@, name),
               !.last_completed_step = name]

\* the step function returned with state st and checkpoint ck: _record_timing
\* appends a SUCCESS record, run() marks the step and begins to save the
\* checkpoint (line 581)
StepSucceeded(name, st, ck, h) ==
    LET saved == save_checkpoint(st, MarkCompleted(ck, name), Now)
    IN  /\ timings' = Append(timings, [op |-> name, idx |-> 0, status |-> "SUCCESS",
                         duration |-> Elapsed(Now, Now)])
        /\ state' = st
        /\ checkpoint' = saved.ck
        /\ file' = TruncatedFile
        /\ hist' = [h EXCEPT !.succeeded = @ \cup {name},
                             !.doneRun = @ \cup {name}]
        /\ stepIdx' = stepIdx + 1
        /\ pc' = "save_581"
        /\ rt' = IdleRt
        /\ UNCHANGED <<cfg, summary, resume_mode, interrupted, upIdx, counter, headers>>

\* the step function raised: _record_timing appends a FAILED record and
\* re-raises; run() logs and re-raises unless self._interrupted is set; its
\* finally clause begins to save the checkpoint (line 593) unless
\* self._interrupted is set
StepFailed(name, st, ck, h) ==
    LET saved == save_checkpoint(st, ck, Now)
    IN  /\ timings' = Append(timings, [op |-> name, idx |-> 0, status |-> "FAILED",
                         duration |-> Elapsed(Now, Now)])
        /\ state' = st
        /\ IF interrupted
           THEN /\ UNCHANGED <<checkpoint, file>>
                /\ hist' = [h EXCEPT !.exit = "swallowed",
                                     !.reported = ck.last_completed_step]
                /\ pc' = "idle"
           ELSE /\ checkpoint' = saved.ck
                /\ file' = TruncatedFile
                /\ hist' = [h EXCEPT !.exit = "raised",
                                     !.reported = ck.last_completed_step]
                /\ pc' = "save_593"
        /\ rt' = IdleRt
        /\ UNCHANGED <<cfg, summary, resume_mode, interrupted, stepIdx, upIdx, counter,
                       headers>>

\* the loop of run() is over: the finally clause begins to save the checkpoint
\* unless self._interrupted is set (os.remove("checkpoint.json") is commented
\* out), and run() returns
RunFinished ==
    /\ pc = "loop"
    /\ stepIdx = Len(Steps) + 1
    /\ IF interrupted
       THEN /\ UNCHANGED <<checkpoint, file>>
            /\ pc' = "idle"
       ELSE /\ checkpoint' = save_checkpoint(state, checkpoint, Now).ck
            /\ file' = TruncatedFile
            /\ pc' = "save_593"
    /\ hist' = [hist EXCEPT !.exit = "returned"]
    /\ UNCHANGED <<cfg, summary, rt, state, resume_mode, interrupted, timings, stepIdx,
                   upIdx, counter, headers>>

\* the places where checkpoint.json is being written, and where the main
\* thread goes on when the file is closed: line 581 (after a step), line 638
\* (every fifth upload), line 593 (finally: the process ends), line 265 (the
\* signal handler: sys.exit), and line 265 reached from the token
\* verification of _load_checkpoint, whose bare "except:" catches SystemExit
SaveReturn ==
    [save_581 |-> "loop", save_638 |-> "upload_loop", save_593 |-> "idle",
     save_265 |-> "idle", save_265_verify |-> "constructed"]

\* json.dump(asdict(self), f) has written the file and the with block has
\* closed it; after the handler's save inside the token verification, line
\* 310 blanks the access token and the process goes on
write_done ==
    /\ pc \in DOMAIN SaveReturn
    /\ file' = save(checkpoint, checkpoint.timestamp).file
    /\ pc' = SaveReturn[pc]
    /\ state' = IF pc = "save_265_verify" THEN token_checked(state, FALSE)
                ELSE state
    /\ summary' = IF pc \in SavesResults THEN calculate_summary(timings)
                  ELSE summary
    /\ hist' = [hist EXCEPT !.good = TRUE]
    /\ UNCHANGED <<cfg, rt, checkpoint, resume_mode, interrupted, timings,
                   stepIdx, upIdx, counter, headers>>

\* the process is killed (SIGKILL, power loss) between open(filename, 'w')
\* and the end of json.dump
crash_in_save ==
    /\ pc \in DOMAIN SaveReturn
    /\ pc' = "idle"
    /\ hist' = [hist EXCEPT !.exit = "crashed"]
    /\ UNCHANGED <<cfg, summary, rt, state, checkpoint, file, resume_mode, interrupted,
                   timings, stepIdx, upIdx, counter, headers>>

\* _signal_handler: SIGINT reaches the process (the handler is installed by
\* __init__): the flag, the checkpoint; then the results and sys.exit(0).
\* SystemExit unwinds the main thread: inside _record_timing the finally
\* clause reads the unbound local "status" and raises UnboundLocalError with
\* no record appended, which run() catches and, the flag being set, does not
\* re-raise; inside the token verification it is caught by "except:".
Interrupt ==
    /\ pc \notin {"idle", "harness", "harness_call"}
    /\ interrupted' = TRUE
    /\ checkpoint' = save_checkpoint(state, checkpoint, Now).ck
    /\ file' = TruncatedFile
    /\ IF pc \in {"verify_token", "save_265_verify"}
       THEN /\ pc' = "save_265_verify"
            /\ UNCHANGED hist
       ELSE /\ pc' = "save_265"
            /\ hist' = [hist EXCEPT !.exit = "interrupted"]
    /\ rt' = IdleRt
    /\ UNCHANGED <<cfg, summary, state, resume_mode, timings, stepIdx, upIdx, counter,
                   headers>>

(***************************************************************************)
(* The steps                                                               *)
(***************************************************************************)
\* _execute_get_token: self._get_access_token() is called directly; any
\* exception of the request leaves the step
execute_get_token ==
    /\ pc = "execute_get_token"
    /\ \E o \in WfOutcomes :
          IF o = "ok"
          THEN StepSucceeded("Get JWT Token",
                             [state EXCEPT !.access_token = NewToken(@)],
                             checkpoint, hist)
          ELSE StepFailed("Get JWT Token", state, checkpoint,
                          [hist EXCEPT !.failure = [kind |-> o, attempts |-> 1]])

\* the error retry_with_backoff raised, after attempt + 1 executions
EngineFailure(r) == [kind |-> r.err.kind, attempts |-> r.attempt + 1]

StartIndexZero(st) == 0

\* start_index = len(self.state.uploaded_files)
StartIndex(st) == Len(st.uploaded_files)

\* _execute_upload_files, lines 613-618
execute_upload_files ==
    /\ pc = "execute_upload_files"
    /\ upIdx' = StartIndex(state)
    /\ pc' = "upload_loop"
    /\ UNCHANGED <<cfg, summary, rt, state, checkpoint, file, resume_mode, interrupted,
                   timings, stepIdx, counter, headers, hist>>

UploadsRemainButLast(i, n) == i < n - 1

\* "for i in range(start_index, self.config.number_of_uploads)"
UploadsRemain(i, n) == i < n

\* the head of the upload loop: _upload_file(i) calls retry_with_backoff, or
\* the loop is over and the step function returns
upload_next ==
    /\ pc = "upload_loop"
    /\ IF UploadsRemain(upIdx, cfg.number_of_uploads)
       THEN /\ rt' = retry_enter("do_upload", "Upload File", cfg.max_retries)
            /\ pc' = "upload_file"
            /\ UNCHANGED <<cfg, summary, state, checkpoint, file, resume_mode, interrupted,
                           timings, stepIdx, upIdx, counter, headers, hist>>
       ELSE StepSucceeded("Upload Files", state, checkpoint,
                          [hist EXCEPT !.uploadsDone = TRUE])

\* "if (i + 1) % 5 == 0"
SaveDue(i) == (i + 1) % Cadence = 0

\* lines 622-641: the file name is appended, the upload is timed, and the
\* save of the checkpoint begins every fifth file
upload_returned ==
    /\ pc = "upload_file"
    /\ rt.pc = "returned"
    /\ LET st == [state EXCEPT !.uploaded_files = Append(@, rt.val)]
           saved == save_checkpoint(st, checkpoint, Now)
       IN  /\ state' = st
           /\ IF SaveDue(upIdx)
              THEN /\ checkpoint' = saved.ck
                   /\ file' = TruncatedFile
                   /\ pc' = "save_638"
              ELSE /\ UNCHANGED <<checkpoint, file>>
                   /\ pc' = "upload_loop"
    /\ timings' = Append(timings,
                         [op |-> "Upload File", idx |-> upIdx + 1, status |-> "SUCCESS",
                         duration |-> Elapsed(Now, Now)])
    /\ upIdx' = upIdx + 1
    /\ rt' = IdleRt
    /\ UNCHANGED <<cfg, summary, resume_mode, interrupted, stepIdx, counter, headers, hist>>

\* lines 642-645: the error of an upload leaves the step
upload_raised ==
    /\ pc = "upload_file"
    /\ rt.pc = "raised"
    /\ StepFailed("Upload Files", state, checkpoint,
                  [hist EXCEPT !.failure = EngineFailure(rt)])

\* _execute_request_signing, lines 651-671 and 707
execute_request_signing ==
    /\ pc = "execute_request_signing"
    /\ IF checkpoint.id_rsa # 0
       THEN StepSucceeded("Request Sign",
                          [state EXCEPT !.id_rsa = checkpoint.id_rsa], checkpoint, hist)
       ELSE IF state.uploaded_files = <<>>
       THEN StepFailed("Request Sign", state, checkpoint,
                       [hist EXCEPT !.failure = [kind |-> "invalid", attempts |-> 0]])
       ELSE /\ headers' = state.access_token
            /\ rt' = retry_enter("do_request", "Request Sign", cfg.max_retries)
            /\ pc' = "request_signing_call"
            /\ UNCHANGED <<cfg, summary, state, checkpoint, file, resume_mode, interrupted,
                           timings, stepIdx, upIdx, counter, hist>>

\* do_request, lines 701-705: the id is stored in the checkpoint object
do_request_store ==
    /\ rt.pc = "do_request_698"
    /\ checkpoint' = [checkpoint EXCEPT !.id_rsa = state.id_rsa]
    /\ rt' = [rt EXCEPT !.pc = "returned"]
    /\ UNCHANGED <<cfg, summary, pc, state, file, resume_mode, interrupted, timings,
                   stepIdx, upIdx, counter, headers, hist>>

\* _execute_get_user_token: a direct request, outside the retry engine
execute_get_user_token ==
    /\ pc = "execute_get_user_token"
    /\ \E o \in WfOutcomes :
          IF o = "ok"
          THEN StepSucceeded("Get User Token",
                             [state EXCEPT !.user_token = NewToken(@)],
                             checkpoint, hist)
          ELSE StepFailed("Get User Token", state, checkpoint,
                          [hist EXCEPT !.failure = [kind |-> o, attempts |-> 1]])

\* the id parameter of the url of _execute_auth_otp: f"id={self.state.id_rsa}"
auth_url_id == state.id_rsa

\* _execute_auth_otp, lines 735-745 and 758
execute_auth_otp ==
    /\ pc = "execute_auth_otp"
    /\ headers' = state.user_token
    /\ rt' = retry_enter("do_auth", "Auth OTP", cfg.max_retries)
    /\ pc' = "auth_otp_call"
    /\ UNCHANGED <<cfg, summary, state, checkpoint, file, resume_mode, interrupted,
                   timings, stepIdx, upIdx, counter, hist>>

\* _execute_signing, lines 765-773 and 792
execute_signing ==
    /\ pc = "execute_signing"
    /\ headers' = state.access_token
    /\ rt' = retry_enter("do_execute", "Execute Sign", cfg.max_retries)
    /\ pc' = "signing_call"
    /\ UNCHANGED <<cfg, summary, state, checkpoint, file, resume_mode, interrupted,
                   timings, stepIdx, upIdx, counter, hist>>

CallSites ==
    [request_signing_call |-> "Request Sign", auth_otp_call |-> "Auth using OTP",
     signing_call |-> "Execute Sign"]

\* retry_with_backoff returned to _execute_request_signing, _execute_auth_otp
\* or _execute_signing, which returns
call_returned ==
    /\ pc \in DOMAIN CallSites
    /\ rt.pc = "returned"
    /\ StepSucceeded(CallSites[pc], state, checkpoint, hist)

\* retry_with_backoff raised in one of these three steps
call_raised ==
    /\ pc \in DOMAIN CallSites
    /\ rt.pc = "raised"
    /\ StepFailed(CallSites[pc], state, checkpoint,
                  [hist EXCEPT !.failure = EngineFailure(rt)])

\* _execute_check_status, lines 799-805
execute_check_status ==
    /\ pc = "execute_check_status"
    /\ headers' = state.access_token
    /\ counter' = 0
    /\ pc' = "poll_loop"
    /\ UNCHANGED <<cfg, summary, rt, state, checkpoint, file, resume_mode, interrupted,
                   timings, stepIdx, upIdx, hist>>

PollsRemainOneMore(n, max, intr) == n <= max /\ ~intr

\* "while counter < self.config.max_status_checks and not self._interrupted"
PollsRemain(n, max, intr) == n < max /\ ~intr

\* the else clause of the while loop, lines 852-855
LoopEndReport(intr) == IF intr THEN "interrupted" ELSE "timeout"

\* the head of the polling loop: one more check, or the loop condition is
\* false and the step function returns
poll_next ==
    /\ pc = "poll_loop"
    /\ IF PollsRemain(counter, cfg.max_status_checks, interrupted)
       THEN /\ counter' = counter + 1
            /\ rt' = retry_enter("do_check", "Status Check", cfg.max_retries * 2)
            /\ pc' = "poll_call"
            /\ UNCHANGED <<cfg, summary, state, checkpoint, file, resume_mode, interrupted,
                           timings, stepIdx, upIdx, headers, hist>>
       ELSE StepSucceeded("Check Sign Status", state, checkpoint,
                          [hist EXCEPT !.pollReport = LoopEndReport(interrupted)])

\* lines 841-843 and 850: "DONE" breaks the loop, anything else sleeps
poll_returned ==
    /\ pc = "poll_call"
    /\ rt.pc = "returned"
    /\ IF rt.msg = "DONE"
       THEN StepSucceeded("Check Sign Status", state, checkpoint,
                          [hist EXCEPT !.polls = Append(@, rt.msg),
                                       !.pollReport = "success"])
       ELSE /\ pc' = "poll_loop"
            /\ rt' = IdleRt
            /\ hist' = [hist EXCEPT !.polls = Append(@, rt.msg)]
            /\ UNCHANGED <<cfg, summary, state, checkpoint, file, resume_mode, interrupted,
                           timings, stepIdx, upIdx, counter, headers>>

poll_raised_aborts ==
    /\ pc = "poll_call"
    /\ rt.pc = "raised"
    /\ StepFailed("Check Sign Status", state, checkpoint,
                  [hist EXCEPT !.failure = EngineFailure(rt)])

\* lines 845-850: the error of a status check is logged and swallowed
poll_raised ==
    /\ pc = "poll_call"
    /\ rt.pc = "raised"
    /\ pc' = "poll_loop"
    /\ rt' = IdleRt
    /\ hist' = [hist EXCEPT !.polls = Append(@, "raised")]
    /\ UNCHANGED <<cfg, summary, state, checkpoint, file, resume_mode, interrupted,
                   timings, stepIdx, upIdx, counter, headers>>

(***************************************************************************)
(* The retry engine at work                                                *)
(***************************************************************************)
\* what one execution of the action does to self.state
FuncState(func, o) ==
    IF func = "do_request" /\ o = "ok"
    THEN [state EXCEPT !.id_rsa = hist.srvSign + 1]     \* line 698
    ELSE state

\* what one execution of the action sends
FuncHist(func, o) ==
    CASE func = "do_upload" ->
            [hist EXCEPT !.uploadReqs = @ \cup {upIdx + 1}]
      [] func = "do_request" ->
            [hist EXCEPT !.signReqs = @ + 1,
                         !.srvSign = IF o = "ok" THEN @ + 1 ELSE @,
                         !.captured = IF o = "ok" /\ @ = 0 THEN hist.srvSign + 1 ELSE @]
      [] OTHER -> hist

\* the value the action returns, and where the engine stands after it
FuncReturn(r, func, o, m) ==
    CASE func = "do_upload" /\ o = "ok" ->
            [r EXCEPT !.val = FileName(hist.runs, upIdx + 1)]
      [] func = "do_request" /\ o = "ok" -> [r EXCEPT !.pc = "do_request_698"]
      [] func = "do_check" /\ o = "ok" -> [r EXCEPT !.msg = m]
      [] OTHER -> r

\* the token of the Authorization header that an execution of the action
\* sends: do_upload builds its headers when it runs (line 483); the other
\* actions use the headers dict that their step built before the call of
\* retry_with_backoff (lines 668-671, 740-743, 765-768, 799-802)
Authorization(func) ==
    IF func = "do_upload" THEN state.access_token ELSE headers

\* the actions that authenticate with the system access token
AccessTokenFuncs == {"do_upload", "do_request", "do_execute", "do_check"}

\* one iteration of "for attempt in range(max_retries + 1)", lines 336-376
retry_attempt ==
    /\ rt.pc = "attempt"
    /\ \E o \in FuncOutcomes(rt.func) :
       \E m \in Messages(rt.func, o) :
          /\ rt' = FuncReturn(retry_iteration(rt, o, cfg.retry_backoff_factor),
                              rt.func, o, m)
          /\ state' = FuncState(rt.func, o)
          /\ hist' = FuncHist(rt.func, o)
    /\ UNCHANGED <<cfg, summary, pc, checkpoint, file, resume_mode, interrupted, timings,
                   stepIdx, upIdx, counter, headers>>

\* lines 347-356: self._get_access_token() after a 401
retry_refresh ==
    /\ rt.pc = "refresh"
    /\ \E ok \in BOOLEAN :
          /\ rt' = retry_refreshed(rt, ok)
          /\ IF ok
             THEN state' = [state EXCEPT !.access_token = NewToken(@)]
             ELSE UNCHANGED state
    /\ UNCHANGED <<cfg, summary, pc, checkpoint, file, resume_mode, interrupted, timings,
                   stepIdx, upIdx, counter, headers, hist>>

\* a caller of retry_with_backoff with an arbitrary action
harness_call ==
    /\ pc = "harness"
    /\ rt' = retry_enter("action", "operation", cfg.max_retries)
    /\ pc' = "harness_call"
    /\ UNCHANGED <<cfg, summary, state, checkpoint, file, resume_mode, interrupted,
                   timings, stepIdx, upIdx, counter, headers, hist>>

(***************************************************************************)
(* Specifications                                                          *)
(***************************************************************************)
WorkflowConfig ==
    [max_retries |-> WfMaxRetries, retry_backoff_factor |-> 1,
     number_of_uploads |-> NumberOfUploads, max_status_checks |-> MaxStatusChecks]

Constructed ==
    /\ rt = IdleRt
    /\ state = InitialState
    /\ checkpoint = DefaultCheckpoint
    /\ resume_mode = FALSE
    /\ interrupted = FALSE
    /\ timings = <<>>
    /\ stepIdx = 0
    /\ upIdx = 0
    /\ counter = 0
    /\ headers = 0
    /\ summary = NoSummary
    /\ hist = InitialHist

\* no process yet; checkpoint.json is absent or was left unreadable
Init ==
    /\ cfg = WorkflowConfig
    /\ pc = "idle"
    /\ file \in {NoFile, CorruptFile}
    /\ Constructed

Next ==
    \/ StartRun
    \/ verify_token
    \/ clear_checkpoint
    \/ write_done
    \/ crash_in_save
    \/ RunBegin
    \/ SkipStep
    \/ ExecuteStep
    \/ RunFinished
    \/ Interrupt
    \/ execute_get_token
    \/ execute_upload_files
    \/ upload_next
    \/ upload_returned
    \/ upload_raised
    \/ execute_request_signing
    \/ do_request_store
    \/ execute_get_user_token
    \/ execute_auth_otp
    \/ execute_signing
    \/ call_returned
    \/ call_raised
    \/ execute_check_status
    \/ poll_next
    \/ poll_returned
    \/ poll_raised
    \/ retry_attempt
    \/ retry_refresh

Spec == Init /\ [][Next]_vars

\* retry_with_backoff on its own: every budget up to MaxBudget, every backoff
\* factor up to MaxFactor, every sequence of outcomes of the action
InitRetry ==
    /\ cfg \in [max_retries : 0..MaxBudget, retry_backoff_factor : 1..MaxFactor,
                number_of_uploads : {NumberOfUploads},
                max_status_checks : {MaxStatusChecks}]
    /\ pc = "harness"
    /\ file = NoFile
    /\ Constructed

NextRetry ==
    \/ harness_call
    \/ retry_attempt
    \/ retry_refresh

SpecRetry == InitRetry /\ [][NextRetry]_vars

\* _calculate_summary on its own: every list of up to MaxRecords records of
\* the operations below with durations up to MaxDuration
SummaryOperations == {"Upload", "Sign", "Get JWT Token", "Get User Token"}

InitSummary ==
    /\ cfg = WorkflowConfig
    /\ pc = "summary_harness"
    /\ file = NoFile
    /\ rt = IdleRt
    /\ state = InitialState
    /\ checkpoint = DefaultCheckpoint
    /\ resume_mode = FALSE
    /\ interrupted = FALSE
    /\ \E n \in 0..MaxRecords :
          timings \in [1..n -> [op : SummaryOperations, idx : {0},
                                status : {"SUCCESS"}, duration : 1..MaxDuration]]
    /\ stepIdx = 0
    /\ upIdx = 0
    /\ counter = 0
    /\ headers = 0
    /\ summary = NoSummary
    /\ hist = InitialHist

\* _calculate_summary is called on the records
summary_call ==
    /\ pc = "summary_harness"
    /\ summary' = calculate_summary(timings)
    /\ pc' = "summary_returned"
    /\ UNCHANGED <<cfg, rt, state, checkpoint, file, resume_mode, interrupted,
                   timings, stepIdx, upIdx, counter, headers, hist>>

NextSummary == summary_call

SpecSummary == InitSummary /\ [][NextSummary]_vars

(***************************************************************************)
(* Properties of the retry engine (checked under SpecRetry)                *)
(***************************************************************************)
ExecIndices(log) == {k \in DOMAIN log : log[k].ev = "exec"}

WaitIndices(log) == {k \in DOMAIN log : log[k].ev = "wait"}

ExecCount(log) == Cardinality(ExecIndices(log))

RetryEnded == rt.pc \in {"returned", "raised"}

\* C6: one call of the retry engine with budget B executes the action at
\* most B + 1 times, and exactly B + 1 times once it has ended and every
\* execution failed with a server error, a connection error or a timeout.
C6_AtMostBudgetPlusOneExecutions ==
    /\ ExecCount(rt.log) <= rt.budget + 1
    /\ (/\ rt.func = "action"
        /\ RetryEnded
        /\ \A k \in ExecIndices(rt.log) : rt.log[k].v \in Transient)
       => ExecCount(rt.log) = rt.budget + 1

\* a call with budget 3 ended after four executions that failed with a server
\* error, a connection error and a timeout
C6_Witness ==
    /\ rt.pc = "raised"
    /\ rt.budget = 3
    /\ ExecCount(rt.log) = 4
    /\ {rt.log[k].v : k \in ExecIndices(rt.log)} = Transient

\* C7: every wait of a call comes right before an execution of the action,
\* after n >= 1 earlier executions, and lasts 2^n f.  While the action keeps
\* failing with a server error, the log of the call is exec, wait 2^1 f,
\* exec, wait 2^2 f, exec, ...: no wait before the first execution, and a
\* call with budget 3 that has ended slept 2f, 4f and 8f in that order.
C7_BackoffOrdering ==
    /\ \A k \in WaitIndices(rt.log) :
          LET n == Cardinality({j \in ExecIndices(rt.log) : j < k})
          IN  /\ n >= 1
              /\ rt.log[k].v = (2 ^ n) * cfg.retry_backoff_factor
              /\ k < Len(rt.log)
              /\ rt.log[k + 1].ev = "exec"
    /\ (/\ rt.func = "action"
        /\ rt.log # <<>>
        /\ \A k \in ExecIndices(rt.log) : rt.log[k].v = "h5xx")
       => (LET n == ExecCount(rt.log)
               f == cfg.retry_backoff_factor
           IN  /\ Len(rt.log) = 2 * n - 1
               /\ \A j \in 1..n : rt.log[2 * j - 1].ev = "exec"
               /\ \A j \in 1..(n - 1) :
                     /\ rt.log[2 * j].ev = "wait"
                     /\ rt.log[2 * j].v = (2 ^ j) * f
               /\ (RetryEnded /\ rt.budget = 3)
                  => [j \in 1..3 |-> rt.log[2 * j].v] = <<2 * f, 4 * f, 8 * f>>)

\* budget 3, factor 2: the call ended after the waits 4, 8, 16
C7_Witness ==
    /\ rt.pc = "raised"
    /\ rt.budget = 3
    /\ cfg.retry_backoff_factor = 2
    /\ \A k \in ExecIndices(rt.log) : rt.log[k].v = "h5xx"
    /\ [k \in 1..3 |-> rt.log[2 * k].v] = <<4, 8, 16>>

\* C8: an execution that fails with a 4xx status other than 401, or with an
\* invalid response, is the last thing the call does: the engine raises that
\* very error without another execution, a wait or a token refresh; when the
\* execution is the first one, the call consists of exactly one execution.
C8_NoRetryOnPermanentFailure ==
    \A k \in ExecIndices(rt.log) :
        rt.log[k].v \in Permanent
        => /\ k = Len(rt.log)
           /\ rt.pc = "raised"
           /\ rt.err = Underlying(rt.log[k].v)
           /\ (rt.attempt = 0 => rt.log = <<[ev |-> "exec", v |-> rt.log[k].v]>>)

\* a first execution answered 4xx under budget 3, and the call has ended
C8_Witness ==
    /\ rt.budget = 3
    /\ rt.pc = "raised"
    /\ rt.log = <<[ev |-> "exec", v |-> "h4xx"]>>

\* C9: after the first 401 of a call and a successful token refresh, the
\* next thing the call does is execute the action: no wait in between.
C9_ImmediateRetryAfterRefresh ==
    \A k \in DOMAIN rt.log :
        (/\ rt.log[k].ev = "refresh"
         /\ rt.log[k].v = "ok"
         /\ \A j \in 1..(k - 1) : rt.log[j].ev # "refresh"
         /\ k < Len(rt.log))
        => rt.log[k + 1].ev = "exec"

\* C10: when the call gives up because a server error, a connection error or
\* a timeout hit the last allowed attempt, the error raised is the "retries
\* exhausted" error with the operation name and the attempt count.
C10_RetriesExhaustedError ==
    (/\ rt.func = "action"
     /\ rt.pc = "raised"
     /\ rt.log # <<>>
     /\ rt.log[Len(rt.log)].ev = "exec"
     /\ rt.log[Len(rt.log)].v \in Transient)
    => /\ rt.err.kind = "max_retries_exceeded"
       /\ rt.err.op = rt.op
       /\ rt.err.n = rt.budget

C2_NoDuplicateSigningRequest ==
    [][(hist.captured # 0 /\ hist'.captured # 0)
       => /\ hist'.signReqs = hist.signReqs
          /\ hist'.captured = hist.captured
          /\ state'.id_rsa \in {0, hist.captured}]_vars

\* the completed steps of a checkpoint are steps that returned (succ), with
\* all the uploads done for Upload Files and an id for Request Sign
CheckpointSound(ck, succ) ==
    /\ Range(ck.completed_steps) \subseteq succ
    /\ "Upload Files" \in Range(ck.completed_steps)
       => Len(ck.uploaded_files) = cfg.number_of_uploads
    /\ "Request Sign" \in Range(ck.completed_steps) => ck.id_rsa # 0

\* C3: every checkpoint written to checkpoint.json (after a step, every fifth
\* upload, on failure, by the signal handler) lists as completed only steps
\* whose function returned in this run or in a run it was resumed from; if it
\* lists Upload Files it holds number_of_uploads files, and if it lists
\* Request Sign it holds a signer-session identifier.
C3_CompletedStepsAreDone ==
    [][(file' # file /\ file'.kind = "json")
       => /\ load(file').ok
          /\ CheckpointSound(load(file').ck, hist'.succeeded)]_vars

\* the signal handler wrote a checkpoint in the middle of the uploads of a
\* resumed run
C3_Witness ==
    /\ hist.exit = "interrupted"
    /\ hist.runs = 2
    /\ hist.found
    /\ load(file).ok
    /\ load(file).ck.completed_steps = <<"Get JWT Token">>
    /\ Len(load(file).ck.uploaded_files) \in 1..(cfg.number_of_uploads - 1)
    /\ load(file).ck.timestamp = 2

\* C4: a checkpoint save followed by a load gives the uploaded files (same
\* elements, same order), the request id and the completed steps that were
\* saved.
C4_CheckpointRoundTrip ==
    [][(file' # file /\ file'.kind = "json")
       => LET l == load(file')
          IN  /\ l.ok
              /\ l.ck.uploaded_files = state'.uploaded_files
              /\ l.ck.request_id = state'.request_id
              /\ l.ck.completed_steps = checkpoint'.completed_steps]_vars

\* a saved checkpoint with several files, several steps and a request id
C4_Witness ==
    /\ file.kind = "json"
    /\ Len(load(file).ck.uploaded_files) >= 2
    /\ Len(load(file).ck.completed_steps) >= 2
    /\ load(file).ck.request_id # 0
    /\ load(file).ck.uploaded_files = state.uploaded_files

\* C5: a process started in resume mode that finds no loadable checkpoint
\* (the file is missing or unreadable) is constructed with no completed step
\* and no uploaded file, draws a new request id, skips no step, and has
\* executed all seven steps when run() returns.
C5_UnreadableCheckpointStartsFresh ==
    (resume_mode /\ ~hist.found)
    => /\ pc = "constructed"
          => /\ checkpoint.completed_steps = <<>>
             /\ state.uploaded_files = <<>>
             /\ checkpoint = DefaultCheckpoint
       /\ stepIdx >= 1 => hist.newRid /\ state.request_id # 0
       /\ hist.skipped = {}
       /\ hist.exit = "returned" => hist.newRid /\ hist.executed = StepNames

\* a resume-mode process that found checkpoint.json unreadable ran to the end
C5_Witness ==
    /\ resume_mode
    /\ ~hist.found
    /\ hist.exit = "returned"
    /\ hist.executed = StepNames
    /\ hist.corrupt

(***************************************************************************)
(* The timing recorder, the step loop of run() and the polling loop        *)
(* (checked under Spec)                                                    *)
(***************************************************************************)
StepFuncs == {Steps[k].func : k \in DOMAIN Steps}

\* the main thread is inside the step function that _record_timing called
RecorderPcs ==
    StepFuncs \cup {"upload_loop", "upload_file", "save_638",
                    "request_signing_call", "auth_otp_call", "signing_call",
                    "poll_loop", "poll_call"}

\* C11: a step function is entered through the recorder once per process, and
\* whenever the main thread leaves it (the process not being killed), exactly
\* one record has been appended to timings, for that step, SUCCESS if run()
\* goes on to mark the step and FAILED otherwise; within a process timings
\* only grows at its end.
C11_TimingRecorder ==
    [][/\ (pc \notin RecorderPcs /\ pc' \in RecorderPcs)
          => /\ pc = "loop"
             /\ pc' = Steps[stepIdx].func
             /\ Steps[stepIdx].name \notin hist.executed
       /\ (pc \in RecorderPcs /\ pc' \notin RecorderPcs /\ hist'.exit # "crashed")
          => /\ Len(timings') = Len(timings) + 1
             /\ timings'[Len(timings')].op = Steps[stepIdx].name
             /\ timings'[Len(timings')].status =
                    IF pc' = "save_581" THEN "SUCCESS" ELSE "FAILED"
       /\ (hist'.runs = hist.runs)
          => /\ Len(timings') >= Len(timings)
             /\ SubSeq(timings', 1, Len(timings)) = timings]_vars

\* C12: when the loop of run() reaches a step, the step is executed only if
\* it is not resumable or its name is not in the completed steps of the
\* loaded checkpoint, and skipped only otherwise; skipping happens in resume
\* mode only, sends nothing and changes neither the state, the checkpoint,
\* the file nor the timings.
C12_ResumeSkipRule ==
    [][(pc = "loop" /\ stepIdx \in DOMAIN Steps)
       => LET s == Steps[stepIdx]
              must == ~s.resumable \/ s.name \notin Range(hist.loadedSteps)
          IN  /\ (pc' = s.func) => must
              /\ (pc' = "loop" /\ stepIdx' = stepIdx + 1)
                 => /\ ~must
                    /\ resume_mode
                    /\ UNCHANGED <<state, checkpoint, file, timings>>
                    /\ hist'.uploadReqs = hist.uploadReqs
                    /\ hist'.signReqs = hist.signReqs
                    /\ hist'.executed = hist.executed]_vars

\* a resumed process skipped Upload Files and Request Sign and executed Get
\* User Token although the loaded checkpoint lists it
C12_Witness ==
    /\ resume_mode
    /\ {"Upload Files", "Request Sign"} \subseteq hist.skipped
    /\ "Get User Token" \in Range(hist.loadedSteps)
    /\ {"Get JWT Token", "Get User Token"} \subseteq hist.executed

\* C13: when the loop of run() stands before a step, after steps that
\* succeeded in this process, checkpoint.json is loadable, lists every one of
\* these steps, and holds the request id, the tokens and the uploaded files
\* of the state, and its signer-session id if it has one.
C13_SavedBeforeNextStep ==
    (pc = "loop" /\ hist.doneRun # {})
    => LET l == load(file)
       IN  /\ l.ok
           /\ hist.doneRun \subseteq Range(l.ck.completed_steps)
           /\ l.ck.request_id = state.request_id
           /\ l.ck.access_token = state.access_token
           /\ l.ck.user_token = state.user_token
           /\ l.ck.uploaded_files = state.uploaded_files
           /\ (state.id_rsa # 0 => l.ck.id_rsa = state.id_rsa)

\* the loop stands before Get User Token after three steps of this process
C13_Witness ==
    /\ pc = "loop"
    /\ stepIdx = 4
    /\ hist.doneRun = {"Get JWT Token", "Upload Files", "Request Sign"}
    /\ state.id_rsa # 0
    /\ Len(load(file).ck.uploaded_files) = cfg.number_of_uploads

DoneAt(polls) == {k \in DOMAIN polls : polls[k] = "DONE"}

\* C14: the polling makes at most max_status_checks checks and none after a
\* check that answered DONE: if check k is the first to answer DONE, it is
\* the last check, the counter stands at k and success is reported; if
\* max_status_checks checks were made and none answered DONE, the polling
\* stops there and reports a timeout.  A check that the retry engine gave up
\* counts as a check without DONE.
C14_PollingTermination ==
    LET polls == hist.polls
        max == cfg.max_status_checks
        stopped == "Check Sign Status" \in hist.doneRun
    IN  /\ Len(polls) <= max
        /\ DoneAt(polls) # {}
           => /\ DoneAt(polls) = {Len(polls)}
              /\ counter = Len(polls)
              /\ stopped
              /\ hist.pollReport = "success"
        /\ hist.pollReport = "success" => DoneAt(polls) # {}
        /\ (stopped /\ DoneAt(polls) = {} /\ Len(polls) = max)
           => /\ counter = max
              /\ hist.pollReport = "timeout"
        /\ hist.pollReport = "timeout"
           => /\ stopped
              /\ Len(polls) = max
              /\ DoneAt(polls) = {}
        /\ (pc = "poll_loop" /\ Len(polls) = max)
           => ~PollsRemain(counter, max, interrupted)

\* PENDING, PENDING, DONE: the polling stopped after three checks with success
C14_Witness ==
    /\ hist.polls = <<"PENDING", "PENDING", "DONE">>
    /\ counter = 3
    /\ hist.pollReport = "success"
    /\ "Check Sign Status" \in Range(checkpoint.completed_steps)

(***************************************************************************)
(* Errors, interrupts and the durability of checkpoint.json                *)
(* (checked under Spec)                                                    *)
(***************************************************************************)
\* C15: when the retry engine raises inside a step (no interrupt being
\* involved), the run is aborted: the save of the finally clause begins, the
\* completed steps stay as they are and the error leaves run(); whenever an
\* error leaves run(), the failing step got a FAILED record and was not
\* marked, and the persistence has begun; after that no step is executed.
C15_ErrorAbortsRun ==
    [][/\ (rt.pc = "raised" /\ pc \in RecorderPcs /\ ~interrupted')
          => /\ hist'.exit = "raised"
             /\ pc' = "save_593"
             /\ checkpoint'.completed_steps = checkpoint.completed_steps
       /\ (hist'.exit = "raised" /\ hist.exit # "raised")
          => /\ pc' = "save_593"
             /\ file' = TruncatedFile
             /\ checkpoint'.completed_steps = checkpoint.completed_steps
             /\ Len(timings') = Len(timings) + 1
             /\ timings'[Len(timings')].status = "FAILED"
       /\ (hist.exit = "raised" /\ hist'.runs = hist.runs)
          => hist'.executed = hist.executed]_vars

\* C16: the signal handler begins with the save of the checkpoint; once the
\* interrupt flag is set, the process executes no step and no status check,
\* no error leaves run(), and the finally clause of run() does not save.
C16_InterruptEndsRun ==
    [][/\ (~interrupted /\ interrupted')
          => /\ file' = TruncatedFile
             /\ checkpoint'.uploaded_files = state.uploaded_files
       /\ (interrupted /\ hist'.runs = hist.runs)
          => /\ hist'.executed = hist.executed
             /\ counter' = counter
             /\ hist'.exit # "raised"
             /\ pc' # "save_593"]_vars

\* C17: when run() has returned with all seven steps completed,
\* checkpoint.json is gone; after --clear-checkpoint it is gone as well.
C17_CheckpointCleared ==
    /\ (/\ pc = "idle"
        /\ hist.exit = "returned"
        /\ StepNames \subseteq Range(checkpoint.completed_steps))
       => file = NoFile
    /\ hist.exit = "cleared" => file = NoFile

\* C18: once a snapshot has been written completely (and not been cleared),
\* a process that has ended, in whatever way, leaves a loadable
\* checkpoint.json.
C18_AtomicCheckpointWrite ==
    (pc = "idle" /\ hist.good) => load(file).ok

\* C19: when a step aborts the run with a server error, a connection error
\* or a timeout of its request, the request had been sent max_retries + 1
\* times.
C19_EveryStepRetries ==
    (hist.exit = "raised" /\ hist.failure.kind \in Transient)
    => hist.failure.attempts = cfg.max_retries + 1

\* the uploaded files of the checkpoint that a resume would load
Durable(f) == IF load(f).ok THEN load(f).ck.uploaded_files ELSE <<>>

UploadPcs == {"execute_upload_files", "upload_loop", "upload_file", "save_638"}

\* C20: during the Upload Files step fewer than five of the files in
\* state.uploaded_files are missing from checkpoint.json.
C20_BoundedUploadLoss ==
    pc \in UploadPcs
    => Len(state.uploaded_files) - Len(Durable(file)) < Cadence

(***************************************************************************)
(* Properties of the summary (checked under SpecSummary)                   *)
(***************************************************************************)
\* the indices of the records of group base_op
GroupOf(base_op) == {k \in DOMAIN timings : BaseOp(timings[k]) = base_op}

RECURSIVE TotalOver(_)
TotalOver(S) ==
    IF S = {} THEN 0
    ELSE LET k == CHOOSE j \in S : TRUE
         IN  timings[k].duration + TotalOver(S \ {k})

\* C21 (aggregation correctness): the summary has one group per base
\* operation name of the records, and in each group the count is the number
\* of its records, the total the sum of their durations, the minimum and the
\* maximum the smallest and the largest of them, and the average the total
\* divided by the count; records Upload 2, Upload 4, Sign 1 give Upload count
\* 2, total 6, average 3, minimum 2, maximum 4
C21_AggregationCorrectness ==
    (pc = "summary_returned") =>
        /\ DOMAIN summary = {BaseOp(timings[k]) : k \in DOMAIN timings}
        /\ \A g \in DOMAIN summary :
              LET S == GroupOf(g)
                  s == summary[g]
              IN  /\ s.count = Cardinality(S)
                  /\ s.count >= 1
                  /\ s.total = TotalOver(S)
                  /\ \E k \in S : timings[k].duration = s.min
                  /\ \A k \in S : timings[k].duration >= s.min
                  /\ \E k \in S : timings[k].duration = s.max
                  /\ \A k \in S : timings[k].duration <= s.max
                  /\ s.average.num * s.count = s.total * s.average.den
                  /\ s.average.den >= 1
        /\ ((/\ Len(timings) = 3
             /\ \A k \in 1..3 : timings[k].op = <<"Upload", "Upload", "Sign">>[k]
             /\ \A k \in 1..3 : timings[k].duration = <<2, 4, 1>>[k])
            => /\ summary["Upload"] =
                    [count |-> 2, total |-> 6, average |-> [num |-> 3, den |-> 1],
                     min |-> 2, max |-> 4]
               /\ summary["Sign"].count = 1)

C21_Witness ==
    /\ pc = "summary_returned"
    /\ Len(timings) = 3
    /\ \A k \in 1..3 : timings[k].op = <<"Upload", "Upload", "Sign">>[k]
    /\ \A k \in 1..3 : timings[k].duration = <<2, 4, 1>>[k]
    /\ summary["Upload"].total = 6

(***************************************************************************)
(* Properties of the workflow, continued (checked under Spec)              *)
(***************************************************************************)
\* C22 (failure report): when a step raises an unrecoverable error, the step
\* name that run() reports as the failing step is the name of the step that
\* raised (the operation of the FAILED timing record), in a fresh run and in
\* a resumed run
C22_FailureReportNamesFailingStep ==
    (hist.exit \in {"raised", "swallowed"} /\ hist.failure.kind # "none")
    => /\ timings # <<>>
       /\ timings[Len(timings)].status = "FAILED"
       /\ hist.reported = timings[Len(timings)].op

\* C23 (signer-session id on resume): in a run resumed from a checkpoint whose
\* completed steps include "Request Sign" but not "Auth using OTP", every
\* request that the Auth OTP step sends carries the identifier stored in the
\* checkpoint, which is not empty
C23_OtpSendsStoredId ==
    [][(/\ pc = "auth_otp_call" /\ pc' = pc
        /\ rt.pc = "attempt" /\ rt' # rt
        /\ resume_mode /\ hist.found
        /\ "Request Sign" \in Range(hist.loadedSteps)
        /\ "Auth using OTP" \notin Range(hist.loadedSteps))
       => (auth_url_id = checkpoint.id_rsa /\ auth_url_id # 0)]_vars

\* C24 (retry with the refreshed token): when retry_with_backoff has
\* refreshed the access token in response to a 401 and goes on to the next
\* execution of the retried action, the token that this execution sends is
\* the refreshed one, for the upload, Request Sign, Execute Sign and the
\* status check
C24_RetryUsesRefreshedToken ==
    [][(/\ rt.pc = "refresh" /\ rt'.pc = "attempt"
        /\ rt.func \in AccessTokenFuncs
        /\ state'.access_token # state.access_token)
       => Authorization(rt.func)' = state'.access_token]_vars

\* C25 (completion requires DONE): "Check Sign Status" is added to
\* completed_steps by a process only if some status check of that process
\* returned the message "DONE"; a poll that reaches max_status_checks without
\* "DONE", or whose checks all failed, does not mark the step completed
C25_CompletedOnlyAfterDone ==
    (/\ "Check Sign Status" \in Range(checkpoint.completed_steps)
     /\ "Check Sign Status" \notin Range(hist.loadedSteps))
    => DoneAt(hist.polls) # {}

\* C26 (a failed check does not end the polling): a status check that
\* retry_with_backoff gave up (client error, retries exhausted) neither ends
\* the polling nor aborts the step: it counts as one of the
\* max_status_checks iterations (the counter is the number of checks made or
\* under way), and while no check has answered "DONE", the limit is not reached
\* and no interrupt arrives, the next check is made
C26_FailedCheckContinuesPolling ==
    [][/\ (pc = "poll_call" /\ rt.pc = "raised" /\ ~interrupted')
          => /\ pc' = "poll_loop"
             /\ hist'.polls = Append(hist.polls, "raised")
             /\ counter' = counter
             /\ counter' = Len(hist'.polls)
             /\ hist'.exit = "none"
             /\ timings' = timings
             /\ checkpoint' = checkpoint
       /\ (/\ pc = "poll_loop" /\ ~interrupted /\ ~interrupted'
           /\ hist.polls # <<>> /\ hist.polls[Len(hist.polls)] = "raised"
           /\ Len(hist.polls) < cfg.max_status_checks)
          => /\ pc' = "poll_call"
             /\ rt'.func = "do_check" /\ rt'.pc = "attempt"
             /\ counter' = Len(hist.polls) + 1]_vars

C26_Witness ==
    /\ pc = "poll_call"
    /\ rt.pc = "returned"
    /\ Len(hist.polls) >= 1
    /\ hist.polls[Len(hist.polls)] = "raised"
    /\ hist.failure.kind = "none"

\* the list is free of duplicates and a prefix of the order of the steps
PrefixOfSteps(completed) ==
    /\ Len(completed) <= Len(Steps)
    /\ \A k \in DOMAIN completed : completed[k] = Steps[k].name

\* C27 (completed_steps is an ordered prefix): in every reachable state of
\* any sequence of runs and resumes, completed_steps, in memory and in a
\* readable checkpoint.json, contains no name twice and is a prefix of the
\* order of the steps; re-running a non-resumable step on resume adds no
\* second entry
C27_CompletedStepsPrefix ==
    /\ PrefixOfSteps(checkpoint.completed_steps)
    /\ load(file).ok => PrefixOfSteps(load(file).ck.completed_steps)
    /\ \A j, k \in DOMAIN checkpoint.completed_steps :
          checkpoint.completed_steps[j] = checkpoint.completed_steps[k] => j = k

C27_Witness ==
    /\ resume_mode /\ hist.found
    /\ Len(hist.loadedSteps) >= 4
    /\ {"Get JWT Token", "Get User Token"} \subseteq hist.doneRun
    /\ load(file).ok
    /\ Len(load(file).ck.completed_steps) > Len(hist.loadedSteps)

\* a measure of what is left of the activation r of retry_with_backoff
RankRt(r) ==
    CASE r.pc = "attempt" -> 3 * (r.budget - r.attempt) + 3
      [] r.pc = "refresh" -> 3 * (r.budget - r.attempt) + 2
      [] r.pc = "do_request_698" -> 1
      [] OTHER -> 0

\* the largest measure of an activation, and of one iteration of a loop
RankCall == 3 * (2 * cfg.max_retries) + 3

RankIteration == RankCall + 3

\* a measure of what is left of the current step
RankInStep(p, r, ui, c) ==
    LET M == cfg.number_of_uploads
        K == cfg.max_status_checks
    IN  CASE p \in {"execute_get_token", "execute_get_user_token"} -> 1
          [] p = "execute_upload_files" -> M * RankIteration + 2
          [] p = "upload_loop" -> (M - ui) * RankIteration + 1
          [] p = "upload_file" -> (M - ui - 1) * RankIteration + 3 + RankRt(r)
          [] p = "save_638" -> (M - ui) * RankIteration + 2
          [] p \in {"execute_request_signing", "execute_auth_otp",
                    "execute_signing"} -> RankCall + 4
          [] p \in {"request_signing_call", "auth_otp_call", "signing_call"} ->
                3 + RankRt(r)
          [] p = "execute_check_status" -> K * RankIteration + 2
          [] p = "poll_loop" -> (K - c) * RankIteration + 1
          [] p = "poll_call" -> (K - c) * RankIteration + 3 + RankRt(r)

RankStep ==
    (cfg.number_of_uploads + cfg.max_status_checks) * RankIteration + 5

\* a measure of what is left of the current process: 0 when it has ended
Rank(p, r, si, ui, c) ==
    CASE p = "idle" -> 0
      [] p = "save_265" -> 1
      [] p = "save_593" -> 2
      [] p = "loop" -> (Len(Steps) + 1 - si) * RankStep + 3
      [] p = "save_581" -> (Len(Steps) + 1 - si) * RankStep + 4
      [] p = "constructed" -> (Len(Steps) + 1) * RankStep
      [] p = "save_265_verify" -> (Len(Steps) + 1) * RankStep + 1
      [] p = "verify_token" -> (Len(Steps) + 1) * RankStep + 2
      [] OTHER -> (Len(Steps) - si) * RankStep + 5 + RankInStep(p, r, ui, c)

C29_SummaryGroupsDistinct ==
    (/\ pc = "idle" /\ hist.exit = "returned" /\ ~resume_mode /\ ~interrupted
     /\ hist.doneRun = StepNames
     /\ summary # NoSummary)
    => LET upload == BaseOp([op |-> "Upload File", idx |-> 1])
       IN  /\ summary[upload].count = cfg.number_of_uploads
           /\ \A k \in GroupOf(upload) : timings[k].op = "Upload File"
           /\ \A j, k \in DOMAIN timings :
                 (timings[j].idx = 0 /\ timings[k].idx = 0
                  /\ BaseOp(timings[j]) = BaseOp(timings[k]))
                 => timings[j].op = timings[k].op

=============================================================================
